---- MODULE Spec2Model ----
\* DocFlow: batch find/replace over Word documents with run splitting
\* (src/App/Word Document Processing.py and its GUI variants), the font
\* change (src/App/Change_Font.py), the entry of the replacement pairs and
\* the PDF combination (src/App/PDF Combination.py).
\*
\* Specifications: SpecReplace (one call of the replacer), SpecFile (a batch
\* over one document), Spec (a batch over a folder), SpecFont (the font
\* change over a folder), SpecInput (the pairs entered at the prompt or in
\* the window, and the batch started from them), SpecPdf (the combination).
\*
\* A text is a sequence of one-character strings.  A run is a record
\* [id, text, style]; id stands for the identity of the python-docx run
\* element.  A paragraph is the sequence of its run elements, and
\* paragraph.text is the concatenation of the run texts.
EXTENDS Integers, Sequences, FiniteSets, TLC

VARIABLES
    paragraph,        \* the paragraph a call of the replacer works on
    call,             \* the arguments of that call and the paragraph before it
    variant,          \* which program of the repository runs the batch
    rules,            \* the replacement pairs given to the batch
    origin,           \* the documents of the origin folder
    destExists,       \* the destination folder exists
    dest,             \* the files of the destination folder
    pc,               \* where the batch driver is
    total_files,
    future,           \* per document, the state of its future in the pool
    workerLog,        \* per document, the line logged by the code that processed it
    driverLog,        \* per document, the line logged by the as_completed loop
    completed,
    files_processed,
    file_i,           \* documents the sequential loop has gone through
    report,           \* the counts of the closing message
    pairs,            \* the replacement pairs entered so far (the rows of the table)
    inputLog,         \* what the last prompt or window event answered
    aliased,          \* the list of the batch thread is the list of the table
    pdfs,             \* the files of the PDF origin folder
    scan,             \* the scan loop of the replacer over the text of one run
    posted            \* the progress values put on the progress queue

replVars == <<paragraph, call>>
batchVars == <<variant, rules, origin, destExists, dest, pc, total_files, future,
               workerLog, driverLog, completed, files_processed, file_i, report>>
inputVars == <<pairs, inputLog, aliased>>
vars == <<paragraph, call, variant, rules, origin, destExists, dest, pc,
          total_files, future, workerLog, driverLog, completed, files_processed,
          file_i, report, pairs, inputLog, aliased, pdfs, scan,
          posted>>

\* ---------------------------------------------------------------- bounds
MaxRuns == 2
MaxParaLen == 4
MaxOldLen == 2
MaxNewLen == 1
MaxFiles == 3
MaxRules == 2
MaxDocRuns == 2
MaxDocLen == 1
MaxFontFiles == 2
MaxPairs == 2
MaxKeyLen == 2
MaxPdfs == 2

Chars == {"a", "b"}

Strs(n) == UNION {[1..k -> Chars] : k \in 0..n}

\* ---------------------------------------------------------------- styles
\* The formatting a run carries: the six attributes the replacer copies
\* and the colour, which it does not copy.
NoStyle ==
    [bold |-> "None", italic |-> "None", underline |-> "None",
     name |-> "None", size |-> "None", style |-> "Default Paragraph Font",
     color |-> "None"]

Fancy ==
    [bold |-> "True", italic |-> "True", underline |-> "True",
     name |-> "Times", size |-> "10pt", style |-> "Emphasis",
     color |-> "Red"]

StyleSet == {NoStyle, Fancy}

\* ---------------------------------------------------------------- str
Min(S) == CHOOSE x \in S : \A y \in S : x <= y

\* s.find(old, start): the lowest 0-based index >= start at which old
\* occurs in s, or -1.
find(s, old, start) ==
    LET cands == {i \in start..(Len(s) - Len(old)) :
                     SubSeq(s, i + 1, i + Len(old)) = old}
    IN IF cands = {} THEN -1 ELSE Min(cands)

\* old in s
Contains(s, old) == find(s, old, 0) # -1

\* s.replace(old, new) for a non-empty old.
RECURSIVE replace(_, _, _)
replace(s, old, new) ==
    LET idx == find(s, old, 0)
    IN IF idx = -1 THEN s
       ELSE SubSeq(s, 1, idx) \o new
            \o replace(SubSeq(s, idx + Len(old) + 1, Len(s)), old, new)

\* ---------------------------------------------------------------- runs
RECURSIVE Concat(_)
Concat(ss) == IF ss = <<>> THEN <<>> ELSE Head(ss) \o Concat(Tail(ss))

\* paragraph.text
ParagraphText(p) == Concat([i \in 1..Len(p) |-> p[i].text])

IndexOf(p, id) == CHOOSE i \in 1..Len(p) : p[i].id = id

MaxId(p) ==
    IF p = <<>> THEN 0
    ELSE CHOOSE m \in {p[i].id : i \in 1..Len(p)} :
             \A i \in 1..Len(p) : p[i].id <= m

\* ------------------------------------------------- the run-splitting replacer
\* The scan loop of one run: the literal and replacement segments, in
\* order, from position start on.
\* The scan resumed one character after the start of a match.
RECURSIVE ScanParts_overlapping(_, _, _, _)
ScanParts_overlapping(text, old, new, start) ==
    LET idx == find(text, old, start)
    IN IF idx = -1 THEN <<SubSeq(text, start + 1, Len(text))>>
       ELSE <<SubSeq(text, start + 1, idx), new>>
            \o ScanParts_overlapping(text, old, new, idx + 1)

\* A scan that replaces old once more in the text it puts in.
RECURSIVE ScanParts_rescan(_, _, _, _)
ScanParts_rescan(text, old, new, start) ==
    LET idx == find(text, old, start)
    IN IF idx = -1 THEN <<SubSeq(text, start + 1, Len(text))>>
       ELSE <<SubSeq(text, start + 1, idx), replace(new, old, new)>>
            \o ScanParts_rescan(text, old, new, idx + Len(old))

RECURSIVE ScanParts(_, _, _, _)
ScanParts(text, old, new, start) ==
    LET idx == find(text, old, start)
    IN IF idx = -1 THEN <<SubSeq(text, start + 1, Len(text))>>
       ELSE <<SubSeq(text, start + 1, idx), new>>
            \o ScanParts(text, old, new, idx + Len(old))

\* A created run that copies everything but the font size.
new_run_style_no_size(run) ==
    [bold |-> run.style.bold, italic |-> run.style.italic,
     underline |-> run.style.underline, name |-> run.style.name,
     size |-> NoStyle.size, style |-> run.style.style,
     color |-> NoStyle.color]

\* The formatting given to a run created for a later segment.
new_run_style(run) ==
    [bold |-> run.style.bold, italic |-> run.style.italic,
     underline |-> run.style.underline, name |-> run.style.name,
     size |-> run.style.size, style |-> run.style.style,
     color |-> NoStyle.color]

\* paragraph.add_run(text): a new run element, default formatting, appended
\* as the last child of the paragraph (also when text is empty).
add_run(p, text, id) == Append(p, [id |-> id, text |-> text, style |-> NoStyle])

\* An insert that leaves the new run where add_run put it, at the end.
parent_insert_stay(p, index) == p

\* parent.insert(index, element) for the element that is the last child:
\* lxml moves it before the child at the 0-based index; when that child is
\* the element itself, or there is none, it stays last.
parent_insert(p, index) ==
    LET n == Len(p)
    IN IF index >= n - 1 THEN p
       ELSE SubSeq(p, 1, index) \o <<p[n]>> \o SubSeq(p, index + 1, n - 1)

\* A loop over parts[1:] that makes no run for an empty segment.
RECURSIVE insert_segments_skip_empty(_, _, _, _)
insert_segments_skip_empty(p, rid, segs, run_index) ==
    IF segs = <<>> THEN p
    ELSE IF Head(segs) = <<>>
    THEN insert_segments_skip_empty(p, rid, Tail(segs), run_index)
    ELSE LET run == p[IndexOf(p, rid)]
             added == add_run(p, Head(segs), MaxId(p) + 1)
             styled == [added EXCEPT ![Len(added)].style = new_run_style(run)]
         IN insert_segments_skip_empty(parent_insert(styled, run_index + 1), rid,
                                       Tail(segs), run_index + 1)

\* The loop over parts[1:]: add a run, copy the formatting, move it behind
\* the previous segment.
RECURSIVE insert_segments(_, _, _, _)
insert_segments(p, rid, segs, run_index) ==
    IF segs = <<>> THEN p
    ELSE LET run == p[IndexOf(p, rid)]
             added == add_run(p, Head(segs), MaxId(p) + 1)
             styled == [added EXCEPT ![Len(added)].style = new_run_style(run)]
         IN insert_segments(parent_insert(styled, run_index + 1), rid,
                            Tail(segs), run_index + 1)

\* The body of the loop for a run that contains old.
split_run(p, rid, old, new) ==
    LET i == IndexOf(p, rid)
        parts == ScanParts(p[i].text, old, new, 0)
        first == [p EXCEPT ![i].text = parts[1]]
    IN insert_segments(first, rid, Tail(parts), i - 1)

\* for run in paragraph.runs: the runs are the ones the paragraph had when
\* the loop started (rids); the result carries replaced_in_run.
RECURSIVE replace_in_runs(_, _, _, _)
replace_in_runs(p, rids, old, new) ==
    IF rids = <<>> THEN [p |-> p, replaced_in_run |-> FALSE]
    ELSE LET rid == Head(rids)
             hit == Contains(p[IndexOf(p, rid)].text, old)
             next == IF hit THEN split_run(p, rid, old, new) ELSE p
             rest == replace_in_runs(next, Tail(rids), old, new)
         IN [p |-> rest.p, replaced_in_run |-> hit \/ rest.replaced_in_run]

\* The fallback taken whenever no run was split.
fallback_guard_no_text_test(replaced_in_run, p, old) == ~replaced_in_run

\* The condition of the fallback.
fallback_guard(replaced_in_run, p, old) ==
    ~replaced_in_run /\ Contains(ParagraphText(p), old)

\* A fallback that keeps the first run element.
fallback_keeps_first_run(p, old, new) ==
    add_run(SubSeq(p, 1, 1), replace(ParagraphText(p), old, new), MaxId(p) + 1)

\* The fallback: every run removed, one new run with the substituted text.
fallback(p, old, new) ==
    add_run(<<>>, replace(ParagraphText(p), old, new), MaxId(p) + 1)

deep_replace_text_in_paragraph(p, old, new) ==
    LET r == replace_in_runs(p, [i \in 1..Len(p) |-> p[i].id], old, new)
    IN IF fallback_guard(r.replaced_in_run, r.p, old)
       THEN fallback(r.p, old, new)
       ELSE r.p

\* ------------------------------------------------- inputs of the replacer
\* The paragraphs of at most k runs whose texts have at most budget
\* characters in all, without ids.
RECURSIVE RunLists(_, _)
RunLists(k, budget) ==
    IF k = 0 THEN {<<>>}
    ELSE {<<>>} \cup
         UNION {{<<[text |-> t, style |-> st]>> \o rest :
                    rest \in RunLists(k - 1, budget - Len(t))} :
                t \in Strs(budget), st \in StyleSet}

WithIds(rl) == [i \in 1..Len(rl) |-> [id |-> i, text |-> rl[i].text, style |-> rl[i].style]]

Paragraphs == {WithIds(rl) : rl \in RunLists(MaxRuns, MaxParaLen)}

OldTexts == Strs(MaxOldLen) \ {<<>>}
\* The new texts of the bounds and one that holds an old text twice.
NewTexts == Strs(MaxNewLen) \cup {<<"a", "a">>}

\* ------------------------------------------------- one document
\* The programs of the repository that run the find/replace batch:
\*   cli      App/Word Document Processing.py
\*   gui      App/Document_Processing_GUI.py
\*   v6       App/Document_Processing_GUI_v6.py (run_word_processing of
\*            Document_Processing_GUI_v5.py is the same loop)
\*   docflow  DocFlow.py.py
Variants == {"cli", "gui", "v6", "docflow"}

\* What goes wrong with a document: nothing, or an exception while it is
\* loaded, while its paragraphs are changed, or while it is saved.
FailKinds == {"none", "load", "mutate", "save"}

\* paragraph.text = text: the content is cleared and one run added.
set_paragraph_text(p, text) == add_run(<<>>, text, MaxId(p) + 1)

\* One rule on one paragraph.
replace_step(v, p, rule) ==
    IF ~Contains(ParagraphText(p), rule.old) THEN p
    ELSE IF v = "cli"
         THEN deep_replace_text_in_paragraph(p, rule.old, rule.new)
         ELSE set_paragraph_text(p, replace(ParagraphText(p), rule.old, rule.new))

\* The loop over the rules left after the first rule that matched.
RECURSIVE apply_rules_first_match_only(_, _, _)
apply_rules_first_match_only(v, p, rs) ==
    IF rs = <<>> THEN p
    ELSE IF Contains(ParagraphText(p), Head(rs).old)
         THEN replace_step(v, p, Head(rs))
         ELSE apply_rules_first_match_only(v, p, Tail(rs))

\* for old_text, new_text in replacements, on one paragraph.
RECURSIVE apply_rules(_, _, _)
apply_rules(v, p, rs) ==
    IF rs = <<>> THEN p
    ELSE apply_rules(v, replace_step(v, p, Head(rs)), Tail(rs))

process_paragraphs(v, ps, rs) == [k \in 1..Len(ps) |-> apply_rules(v, ps[k], rs)]

\* A replacement that also walks the table cells and the footers.
replaced_content_everywhere(v, doc, rs) ==
    [body |-> process_paragraphs(v, doc.body, rs),
     tables |-> process_paragraphs(v, doc.tables, rs),
     footers |-> process_paragraphs(v, doc.footers, rs)]

\* for paragraph in doc.paragraphs: the body paragraphs only.
replaced_content(v, doc, rs) ==
    [body |-> process_paragraphs(v, doc.body, rs),
     tables |-> doc.tables,
     footers |-> doc.footers]

\* new_filename = new_filename.replace(old_text, new_text), rule by rule.
RECURSIVE rename(_, _)
rename(name, rs) ==
    IF rs = <<>> THEN name
    ELSE rename(replace(name, Head(rs).old, Head(rs).new), Tail(rs))

RECURSIVE process_file_name(_, _)
process_file_name(name, rs) ==
    IF rs = <<>> THEN name
    ELSE process_file_name(
             IF Contains(name, Head(rs).old)
             THEN replace(name, Head(rs).old, Head(rs).new)
             ELSE name,
             Tail(rs))

\* The name the document is saved under.
new_filename(v, name, rs) ==
    CASE v \in {"cli", "gui"} -> rename(name, rs)
      [] v = "docflow" -> process_file_name(name, rs)
      [] v \in {"v5", "v6"} -> name

NoFile == [name |-> <<>>, body |-> <<>>, tables |-> <<>>, footers |-> <<>>]

\* A document that no rule changes, in content or in name, is not saved.
process_word_file_changed_only(v, doc, rs) ==
    IF doc.fails # "none" THEN [ok |-> FALSE, file |-> NoFile]
    ELSE LET content == replaced_content(v, doc, rs)
         IN IF content.body = doc.body /\ new_filename(v, doc.name, rs) = doc.name
            THEN [ok |-> FALSE, file |-> NoFile]
            ELSE [ok |-> TRUE,
                  file |-> [name |-> new_filename(v, doc.name, rs),
                            body |-> content.body,
                            tables |-> content.tables,
                            footers |-> content.footers]]

\* Load, replace, rename, save: ok and the file written, or not ok when an
\* exception was raised on the way.
process_word_file(v, doc, rs) ==
    IF doc.fails # "none" THEN [ok |-> FALSE, file |-> NoFile]
    ELSE LET content == replaced_content(v, doc, rs)
         IN [ok |-> TRUE,
             file |-> [name |-> new_filename(v, doc.name, rs),
                       body |-> content.body,
                       tables |-> content.tables,
                       footers |-> content.footers]]

\* doc.save(path): the file at that path is created or overwritten.
save(files, file) == {d \in files : d.name # file.name} \cup {file}

\* ------------------------------------------------- the batch driver
\* The loop stopped by the first document that raises.
next_index_abort(i, n, ok) == IF ok THEN i + 1 ELSE n

\* try/except inside the loop: the next document, whatever happened.
next_index(i, n, ok) == i + 1

NoReport == [processed |-> -1, total |-> -1]

\* The counts of the closing message.  The closing message of v6 and docflow
\* carries no count: their report is the per-document lines.
closing_report ==
    CASE variant = "cli" ->
           [processed |-> files_processed, total |-> total_files]
      [] variant = "gui" ->
           [processed |-> total_files, total |-> total_files]
      [] OTHER ->
           [processed |-> Cardinality({f \in 1..total_files : workerLog[f] = "created"}),
            total |-> total_files]

\* The start of process_directory / run_word_processing.
Start ==
    /\ pc = "idle"
    /\ IF \/ variant \in {"v5", "v6", "docflow"} /\ ~destExists
          \/ variant = "v5" /\ rules = <<>>
       THEN /\ pc' = "done"
            /\ UNCHANGED <<destExists, total_files, future>>
       ELSE IF Len(origin) = 0
       THEN /\ pc' = "done"
            /\ UNCHANGED <<destExists, total_files, future>>
       ELSE /\ pc' = "running"
            /\ total_files' = Len(origin)
            /\ destExists' = TRUE
            /\ future' = IF variant = "cli"
                         THEN [f \in 1..Len(origin) |-> "submitted"]
                         ELSE future
    /\ UNCHANGED <<inputVars, pdfs, scan, posted,
                   paragraph, call, variant, rules, origin, dest, workerLog,
                   driverLog, completed, files_processed, file_i, report>>

\* A worker of the pool runs process_word_file on document f.
Worker(f) ==
    /\ pc = "running"
    /\ variant = "cli"
    /\ future[f] = "submitted"
    /\ LET r == process_word_file(variant, origin[f], rules)
       IN /\ dest' = IF r.ok THEN save(dest, r.file) ELSE dest
          /\ workerLog' = [workerLog EXCEPT ![f] = IF r.ok THEN "created" ELSE "error"]
    /\ future' = [future EXCEPT ![f] = "returned"]
    /\ UNCHANGED <<inputVars, pdfs, scan, posted,
                   paragraph, call, variant, rules, origin, destExists, pc,
                   total_files, driverLog, completed, files_processed, file_i, report>>

\* One turn of the as_completed loop, for the finished future of document f.
Collect(f) ==
    /\ pc = "running"
    /\ variant = "cli"
    /\ future[f] \in {"returned", "raised"}
    /\ driverLog[f] = "none"
    /\ completed' = completed + 1
    /\ IF future[f] = "returned"
       THEN /\ files_processed' = files_processed + 1
            /\ driverLog' = [driverLog EXCEPT ![f] = "processed"]
       ELSE /\ files_processed' = files_processed
            /\ driverLog' = [driverLog EXCEPT ![f] = "error"]
    /\ UNCHANGED <<inputVars, pdfs, scan, posted,
                   paragraph, call, variant, rules, origin, destExists, dest, pc,
                   total_files, future, workerLog, file_i, report>>

\* The pool is left and the closing message logged.
Finish ==
    /\ pc = "running"
    /\ variant = "cli"
    /\ completed = total_files
    /\ report' = closing_report
    /\ pc' = "done"
    /\ UNCHANGED <<inputVars, pdfs, scan, posted,
                   paragraph, call, variant, rules, origin, destExists, dest,
                   total_files, future, workerLog, driverLog, completed,
                   files_processed, file_i>>

\* The value of update_progress after the f-th of n documents: the whole
\* percent of int((i + 1) / total_files * 100); Document_Processing_GUI.py
\* posts the quotient without int().
progress_value(f, n) == (f * 100) \div n

\* update_progress is the statement after process_word_file in
\* Document_Processing_GUI.py, where no exception reaches the loop; in the
\* other GUIs it is inside the try, after the save.
posts_progress(v, ok) == v = "gui" \/ ok

\* One turn of the loop over the files in the programs without a pool.
SeqStep ==
    /\ pc = "running"
    /\ variant # "cli"
    /\ file_i < total_files
    /\ LET f == file_i + 1
           r == process_word_file(variant, origin[f], rules)
       IN /\ dest' = IF r.ok THEN save(dest, r.file) ELSE dest
          /\ workerLog' = [workerLog EXCEPT ![f] = IF r.ok THEN "created" ELSE "error"]
          /\ file_i' = next_index(file_i, total_files, r.ok)
          /\ posted' = IF posts_progress(variant, r.ok)
                        THEN Append(posted, progress_value(f, total_files))
                        ELSE posted
    /\ UNCHANGED <<inputVars, pdfs, scan,
                   paragraph, call, variant, rules, origin, destExists, pc,
                   total_files, future, driverLog, completed, files_processed,
                   report>>

SeqFinish ==
    /\ pc = "running"
    /\ variant # "cli"
    /\ file_i = total_files
    /\ report' = closing_report
    /\ pc' = "done"
    /\ UNCHANGED <<inputVars, pdfs, scan, posted,
                   paragraph, call, variant, rules, origin, destExists, dest,
                   total_files, future, workerLog, driverLog, completed,
                   files_processed, file_i>>

\* ------------------------------------------------- inputs of the batch
BatchRules ==
    {[old |-> <<"a">>, new |-> <<"b">>], [old |-> <<"b">>, new |-> <<"c">>]}

RuleLists == UNION {[1..k -> BatchRules] : k \in 1..MaxRules}

\* The rule lists of the batches over several documents.
SampleRuleLists ==
    {<<[old |-> <<"a">>, new |-> <<"b">>]>>,
     <<[old |-> <<"a">>, new |-> <<"b">>], [old |-> <<"b">>, new |-> <<"c">>]>>}

\* File names; "." stands for the extension .docx.
NamePool ==
    << <<"a", ".">>, <<"b", ".">>, <<"a", "b", ".">>, <<"b", "a", ".">> >>

DocParagraphs == {WithIds(rl) : rl \in RunLists(MaxDocRuns, MaxDocLen)}

SampleParagraph ==
    WithIds(<<[text |-> <<"a">>, style |-> Fancy],
              [text |-> <<"b">>, style |-> NoStyle]>>)

\* A document with one body paragraph, one table cell paragraph and one
\* footer paragraph, all three with the runs of p.
Doc(name, fails, p) ==
    [name |-> name, fails |-> fails,
     body |-> <<p>>, tables |-> <<p>>, footers |-> <<p>>]

\* The i-th document of a folder: the sample paragraph in the body and in
\* the table, and its own name in the footer.
SampleDoc(i, fails) ==
    [Doc(NamePool[i], fails, SampleParagraph) EXCEPT
        !.footers = <<WithIds(<<[text |-> NamePool[i], style |-> NoStyle]>>)>>]

NoScan == [text |-> <<>>, old |-> <<>>, new |-> <<>>, start |-> 0,
           parts |-> <<>>, done |-> TRUE]

NoInput == [event |-> "none", old |-> <<>>, answer |-> "none"]

NoCall == [done |-> FALSE, old |-> <<>>, new |-> <<>>, before |-> <<>>]

\* The counters and logs before anything has run.
InitCounters ==
    /\ dest = {}
    /\ total_files = 0
    /\ future = [f \in 1..Len(origin) |-> "none"]
    /\ workerLog = [f \in 1..Len(origin) |-> "none"]
    /\ driverLog = [f \in 1..Len(origin) |-> "none"]
    /\ completed = 0
    /\ files_processed = 0
    /\ file_i = 0
    /\ report = NoReport
    /\ pairs = <<>>
    /\ inputLog = NoInput
    /\ aliased = FALSE
    /\ scan = NoScan
    /\ posted = <<>>

InitDriver ==
    /\ pc = "idle"
    /\ pdfs = <<>>
    /\ InitCounters

\* A batch over a folder of up to MaxFiles documents, any of which may fail,
\* no two of them with the same content.
Init ==
    /\ paragraph = <<>>
    /\ call = NoCall
    /\ variant \in Variants
    /\ rules \in SampleRuleLists
    /\ destExists \in BOOLEAN
    /\ \E n \in 0..MaxFiles :
          origin \in {[i \in 1..n |-> SampleDoc(i, fl[i])] :
                      fl \in [1..n -> FailKinds]}
    /\ InitDriver

\* A batch over a folder of one document that does not fail, with any
\* paragraph of the bounds.
InitFile ==
    /\ paragraph = <<>>
    /\ call = NoCall
    /\ variant \in Variants
    /\ rules \in RuleLists
    /\ destExists = TRUE
    /\ \E nm \in 1..Len(NamePool), p \in DocParagraphs :
          origin = <<Doc(NamePool[nm], "none", p)>>
    /\ InitDriver

Next ==
    \/ Start
    \/ \E f \in 1..Len(origin) : Worker(f)
    \/ \E f \in 1..Len(origin) : Collect(f)
    \/ Finish
    \/ SeqStep
    \/ SeqFinish

Spec == Init /\ [][Next]_vars

SpecFile == InitFile /\ [][Next]_vars

\* ------------------------------------------------- the replacer, called once
InitReplace ==
    /\ paragraph \in Paragraphs
    /\ call = [done |-> FALSE, old |-> <<>>, new |-> <<>>, before |-> paragraph]
    /\ variant = "cli"
    /\ rules = <<>>
    /\ destExists = TRUE
    /\ origin = <<>>
    /\ InitDriver

DeepReplace ==
    /\ ~call.done
    /\ \E old \in OldTexts, new \in NewTexts :
          /\ paragraph' = deep_replace_text_in_paragraph(paragraph, old, new)
          /\ call' = [done |-> TRUE, old |-> old, new |-> new, before |-> paragraph]
    /\ UNCHANGED <<batchVars, inputVars, pdfs, scan, posted>>

NextReplace == DeepReplace

SpecReplace == InitReplace /\ [][NextReplace]_vars

\* ------------------------------------------------- the scan loop, step by step
\* A loop that searches again from the match it found.
next_start_stuck(idx, old) == idx

\* start = idx + len(old_text)
next_start(idx, old) == idx + Len(old)

\* A run whose text contains old, at "start = 0".
InitScan ==
    /\ paragraph = <<>>
    /\ call = NoCall
    /\ variant = "cli"
    /\ rules = <<>>
    /\ destExists = TRUE
    /\ origin = <<>>
    /\ pc = "idle"
    /\ pdfs = <<>>
    /\ dest = {}
    /\ total_files = 0
    /\ future = <<>>
    /\ workerLog = <<>>
    /\ driverLog = <<>>
    /\ completed = 0
    /\ files_processed = 0
    /\ file_i = 0
    /\ report = NoReport
    /\ pairs = <<>>
    /\ inputLog = NoInput
    /\ aliased = FALSE
    /\ posted = <<>>
    /\ \E text \in Strs(MaxParaLen), old \in OldTexts, new \in NewTexts :
          /\ Contains(text, old)
          /\ scan = [text |-> text, old |-> old, new |-> new, start |-> 0,
                     parts |-> <<>>, done |-> FALSE]

\* A turn of "while True" that finds old at idx.  No scan of a text of the
\* bounds has more than 2 * MaxParaLen parts before its last turn.
ScanMatch ==
    /\ ~scan.done
    /\ Len(scan.parts) <= 2 * MaxParaLen
    /\ LET idx == find(scan.text, scan.old, scan.start)
       IN /\ idx # -1
          /\ scan' = [scan EXCEPT
                !.parts = scan.parts
                          \o <<SubSeq(scan.text, scan.start + 1, idx), scan.new>>,
                !.start = next_start(idx, scan.old)]
    /\ UNCHANGED <<inputVars, pdfs, posted, replVars, batchVars>>

\* The turn that finds no further old: the rest of the text, and break.
ScanBreak ==
    /\ ~scan.done
    /\ find(scan.text, scan.old, scan.start) = -1
    /\ scan' = [scan EXCEPT
          !.parts = Append(scan.parts,
                           SubSeq(scan.text, scan.start + 1, Len(scan.text))),
          !.done = TRUE]
    /\ UNCHANGED <<inputVars, pdfs, posted, replVars, batchVars>>

NextScan ==
    \/ ScanMatch
    \/ ScanBreak

\* The loop runs on: nothing stops the thread in it.
SpecScan == InitScan /\ [][NextScan]_vars /\ WF_vars(NextScan)

\* ------------------------------------------------- the font change
\* The programs that change the font of the documents of a folder:
\*   change_font   App/Change_Font.py
\*   docflow_font  run_font_change of DocFlow.py.py (the same loop is in
\*                 Document_Processing_GUI_v5.py)
FontVariants == {"change_font", "docflow_font"}

\* A setter that also drops the size of a run that already has it.
set_run_font_toggle(run, name, size) ==
    [run EXCEPT !.style.name = name,
                !.style.size = IF run.style.size = size THEN "None" ELSE size]

\* A setter that also clears the bold flag of the run.
set_run_font_plain(run, name, size) ==
    [run EXCEPT !.style.name = name, !.style.size = size, !.style.bold = "None"]

\* run.font.name = name; run.font.size = Pt(size)
set_run_font(run, name, size) ==
    [run EXCEPT !.style.name = name, !.style.size = size]

\* run.font.size = Pt(size)
set_run_size(run, size) == [run EXCEPT !.style.size = size]

\* The loops of change_font_in_docx over the paragraphs of one part of the
\* document and over their runs.
change_font_in_paragraphs(ps, name, size) ==
    [k \in 1..Len(ps) |->
        [r \in 1..Len(ps[k]) |-> set_run_font(ps[k][r], name, size)]]

\* Body and table paragraphs Calibri 12pt, footer paragraphs Calibri 8pt.
change_font_content(doc) ==
    [body |-> change_font_in_paragraphs(doc.body, "Calibri", "12pt"),
     tables |-> change_font_in_paragraphs(doc.tables, "Calibri", "12pt"),
     footers |-> change_font_in_paragraphs(doc.footers, "Calibri", "8pt")]

\* The loop of run_font_change: the size of the runs of doc.paragraphs.
run_font_change_content(doc) ==
    [body |-> [k \in 1..Len(doc.body) |->
                  [r \in 1..Len(doc.body[k]) |-> set_run_size(doc.body[k][r], "12pt")]],
     tables |-> doc.tables,
     footers |-> doc.footers]

font_content(v, doc) ==
    IF v = "change_font" THEN change_font_content(doc)
    ELSE run_font_change_content(doc)

\* Load, change the font, save under the name of the document.
change_font_in_docx(v, doc) ==
    IF doc.fails # "none" THEN [ok |-> FALSE, file |-> NoFile]
    ELSE LET content == font_content(v, doc)
         IN [ok |-> TRUE,
             file |-> [name |-> doc.name,
                       body |-> content.body,
                       tables |-> content.tables,
                       footers |-> content.footers]]

\* The start of process_folder / run_font_change.
FontStart ==
    /\ pc = "idle"
    /\ IF (variant = "docflow_font" /\ ~destExists) \/ Len(origin) = 0
       THEN pc' = "done" /\ total_files' = total_files
       ELSE pc' = "running" /\ total_files' = Len(origin)
    /\ UNCHANGED <<inputVars, pdfs, scan, posted,
                   paragraph, call, variant, rules, origin, destExists, dest,
                   future, workerLog, driverLog, completed, files_processed,
                   file_i, report>>

\* One turn of the loop over the files.  change_font_in_docx makes the
\* destination folder after the document is loaded and changed.
FontStep ==
    /\ pc = "running"
    /\ file_i < total_files
    /\ LET f == file_i + 1
           r == change_font_in_docx(variant, origin[f])
       IN /\ dest' = IF r.ok THEN save(dest, r.file) ELSE dest
          /\ workerLog' = [workerLog EXCEPT ![f] = IF r.ok THEN "created" ELSE "error"]
          /\ destExists' = IF variant = "change_font"
                              /\ origin[f].fails \in {"none", "save"}
                           THEN TRUE ELSE destExists
          /\ file_i' = next_index(file_i, total_files, r.ok)
    /\ UNCHANGED <<inputVars, pdfs, scan, posted,
                   paragraph, call, variant, rules, origin, pc, total_files,
                   future, driverLog, completed, files_processed, report>>

FontFinish ==
    /\ pc = "running"
    /\ file_i = total_files
    /\ pc' = "done"
    /\ UNCHANGED <<inputVars, pdfs, scan, posted,
                   paragraph, call, variant, rules, origin, destExists, dest,
                   total_files, future, workerLog, driverLog, completed,
                   files_processed, file_i, report>>

\* A folder of up to MaxFontFiles documents, any of which may fail, with any
\* paragraph of the bounds in the body, in a table cell and in the footer.
InitFont ==
    /\ paragraph = <<>>
    /\ call = NoCall
    /\ variant \in FontVariants
    /\ rules = <<>>
    /\ destExists \in BOOLEAN
    /\ \E n \in 0..MaxFontFiles, p \in DocParagraphs :
          origin \in {[i \in 1..n |-> Doc(NamePool[i], fl[i], p)] :
                      fl \in [1..n -> FailKinds]}
    /\ InitDriver

NextFont ==
    \/ FontStart
    \/ FontStep
    \/ FontFinish

SpecFont == InitFont /\ [][NextFont]_vars

\* ------------------------------------------------- the replacement pairs
\* The session of a user up to the end of the first batch, in the programs
\* that take replacement pairs from the user: the four of Variants and
\*   v5   App/Document_Processing_GUI_v5.py, which keeps the pairs in the
\*        table element; window["-TABLE-"].get() is taken to return the list
\*        of rows the element holds, as the event loop of v5 uses it.
InputVariants == {"cli", "gui", "v5", "v6", "docflow"}

GuiVariants == {"gui", "v5", "v6", "docflow"}

\* str.strip(): the text without the blanks at its ends.
RECURSIVE lstrip(_)
lstrip(s) == IF s # <<>> /\ Head(s) = " " THEN lstrip(Tail(s)) ELSE s

RECURSIVE rstrip(_)
rstrip(s) ==
    IF s # <<>> /\ s[Len(s)] = " " THEN rstrip(SubSeq(s, 1, Len(s) - 1)) ELSE s

strip(s) == rstrip(lstrip(s))

\* What the user types into the two fields.
RawOldTexts == {<<>>, <<" ">>, <<" ", "a">>, <<"b">>}

RawNewTexts == {<<>>, <<"c", " ">>}

\* An entry is taken whenever its new text is not empty.
entry_taken_new_only(v, old_text, new_text) == new_text # <<>>

\* The test on the two stripped texts that lets an entry into the list:
\* "if not old_text: break" of the prompt, "if old_text and new_text" of Add.
entry_taken(v, old_text, new_text) ==
    IF v = "cli" THEN old_text # <<>>
    ELSE old_text # <<>> /\ new_text # <<>>

Answer(event, old_text, answer) ==
    [event |-> event, old |-> old_text, answer |-> answer]

\* A test that never finds the pair in the list.
InList_never(pair, list) == FALSE

\* new_pair in replacement_pairs
InList(pair, list) == \E k \in 1..Len(list) : list[k] = pair

\* del list[row] for the selected rows, the highest row first.
remove_rows(list, selected_rows) ==
    LET kept == {k \in 1..Len(list) : k \notin selected_rows}
        F[n \in 0..Len(list)] ==
            IF n = 0 THEN <<>>
            ELSE IF n \in kept THEN Append(F[n - 1], list[n]) ELSE F[n - 1]
    IN F[Len(list)]

\* One turn of the loop of get_replacements_from_user with an old text.
CliEnter(old_raw, new_raw) ==
    /\ pc = "input"
    /\ variant = "cli"
    /\ entry_taken(variant, strip(old_raw), strip(new_raw))
    /\ Len(pairs) < MaxPairs
    /\ pairs' = Append(pairs, [old |-> strip(old_raw), new |-> strip(new_raw)])
    /\ inputLog' = Answer("prompt", strip(old_raw), "added")
    /\ UNCHANGED <<aliased, pdfs, scan, posted, replVars, batchVars>>

\* The old text left empty: the input ends, and __main__ starts the batch
\* unless there is no pair.
CliFinish(old_raw) ==
    /\ pc = "input"
    /\ variant = "cli"
    /\ ~entry_taken(variant, strip(old_raw), <<>>)
    /\ IF pairs = <<>>
       THEN /\ pc' = "done"
            /\ rules' = rules
            /\ inputLog' = Answer("prompt", strip(old_raw), "exit")
       ELSE /\ pc' = "idle"
            /\ rules' = pairs
            /\ inputLog' = Answer("prompt", strip(old_raw), "finished")
    /\ UNCHANGED <<pairs, aliased, pdfs, scan, posted, replVars, variant, origin, destExists,
                   dest, total_files, future, workerLog, driverLog, completed,
                   files_processed, file_i, report>>

\* The event -ADD-.  Document_Processing_GUI.py appends without looking for
\* the pair in the list.
GuiAdd(old_raw, new_raw) ==
    /\ variant \in GuiVariants
    /\ pc # "done"
    /\ LET old_text == strip(old_raw)
           new_text == strip(new_raw)
           new_pair == [old |-> old_text, new |-> new_text]
       IN IF ~entry_taken(variant, old_text, new_text)
          THEN /\ inputLog' = Answer("add", old_text, "required")
               /\ UNCHANGED <<pairs, rules>>
          ELSE IF variant # "gui" /\ InList(new_pair, pairs)
          THEN /\ inputLog' = Answer("add", old_text, "exists")
               /\ UNCHANGED <<pairs, rules>>
          ELSE /\ Len(pairs) < MaxPairs
               /\ pairs' = Append(pairs, new_pair)
               /\ rules' = IF aliased THEN pairs' ELSE rules
               /\ inputLog' = Answer("add", old_text, "added")
    /\ UNCHANGED <<aliased, pdfs, scan, posted, replVars, variant, origin, destExists, dest,
                   pc, total_files, future, workerLog, driverLog, completed,
                   files_processed, file_i, report>>

\* The event -REMOVE- with rows selected (with none it does nothing).
GuiRemove(selected_rows) ==
    /\ variant \in {"v5", "v6", "docflow"}
    /\ pc # "done"
    /\ selected_rows # {}
    /\ pairs' = remove_rows(pairs, selected_rows)
    /\ rules' = IF aliased THEN pairs' ELSE rules
    /\ inputLog' = Answer("remove", <<>>, "removed")
    /\ UNCHANGED <<aliased, pdfs, scan, posted, replVars, variant, origin, destExists, dest,
                   pc, total_files, future, workerLog, driverLog, completed,
                   files_processed, file_i, report>>

\* The event -CLEAR-: replacement_pairs.clear(); v5 gives the table a new
\* empty list, and the list it held stays with the thread that has it.
GuiClear ==
    /\ variant \in {"v5", "v6", "docflow"}
    /\ pc # "done"
    /\ pairs' = <<>>
    /\ aliased' = FALSE
    /\ inputLog' = Answer("clear", <<>>, "cleared")
    /\ UNCHANGED <<pdfs, scan, posted, replVars, batchVars>>

\* The event -RUN_WP-, for the first batch of the session: the thread is
\* given a copy of the list (a new list of tuples in
\* Document_Processing_GUI.py), or in v5 the list of the table itself.
GuiRun ==
    /\ variant \in GuiVariants
    /\ pc = "input"
    /\ IF variant # "gui" /\ pairs = <<>>
       THEN /\ inputLog' = Answer("run", <<>>, "empty_list")
            /\ UNCHANGED <<rules, pc, aliased>>
       ELSE /\ rules' = pairs
            /\ aliased' = (variant = "v5")
            /\ pc' = "idle"
            /\ inputLog' = Answer("run", <<>>, "started")
    /\ UNCHANGED <<pairs, pdfs, scan, posted, replVars, variant, origin, destExists, dest,
                   total_files, future, workerLog, driverLog, completed,
                   files_processed, file_i, report>>

\* The folder of the batches started from the prompt or the window.
InputDocs ==
    <<Doc(NamePool[1], "none", SampleParagraph),
      Doc(NamePool[2], "none", SampleParagraph)>>

InitInput ==
    /\ paragraph = <<>>
    /\ call = NoCall
    /\ variant \in InputVariants
    /\ rules = <<>>
    /\ destExists = TRUE
    /\ origin = InputDocs
    /\ pc = "input"
    /\ pdfs = <<>>
    /\ InitCounters

NextInput ==
    \/ \E old_raw \in RawOldTexts, new_raw \in RawNewTexts : CliEnter(old_raw, new_raw)
    \/ \E old_raw \in RawOldTexts : CliFinish(old_raw)
    \/ \E old_raw \in RawOldTexts, new_raw \in RawNewTexts : GuiAdd(old_raw, new_raw)
    \/ \E selected_rows \in SUBSET (1..Len(pairs)) : GuiRemove(selected_rows)
    \/ GuiClear
    \/ GuiRun
    \/ Next

SpecInput == InitInput /\ [][NextInput]_vars

\* ------------------------------------------------- the PDF combination
\* App/PDF Combination.py.  In the file names of this part "J" stands for
\* "January 2025", "j" for its lower case, and the last character "." for
\* the extension.
Sep == <<" ", "-", " ">>

January == <<"J">>

LowerChar(c) == CASE c = "A" -> "a" [] c = "J" -> "j" [] OTHER -> c

\* str.lower()
lower(s) == [k \in 1..Len(s) |-> LowerChar(s[k])]

\* Path.stem: the name without the extension.
stem(name) == SubSeq(name, 1, Len(name) - 1)

\* base_name.split(" - ")[0]
split_first(s, sep) ==
    LET idx == find(s, sep, 0)
    IN IF idx = -1 THEN s ELSE SubSeq(s, 1, idx)

\* The key taken without stripping the part before " - ".
match_key_unstripped(base_name) ==
    LET key == lower(split_first(base_name, Sep))
    IN IF key = <<>> THEN lower(base_name) ELSE key

\* The key of a DOCX: the part before " - ", stripped and lower-cased, or
\* the whole stem lower-cased when that is empty.
match_key(base_name) ==
    LET key == lower(strip(split_first(base_name, Sep)))
    IN IF key = <<>> THEN lower(base_name) ELSE key

\* The dict comprehension: one entry per lower-cased name, at the place of
\* the first file with that name and with the last such file as its value.
RECURSIVE pdf_lookup(_)
pdf_lookup(files) ==
    IF files = <<>> THEN <<>>
    ELSE LET n == Len(files)
             before == pdf_lookup(SubSeq(files, 1, n - 1))
             key == lower(files[n])
         IN IF \E k \in 1..Len(before) : before[k].key = key
            THEN [k \in 1..Len(before) |->
                     IF before[k].key = key
                     THEN [key |-> key, file |-> files[n]] ELSE before[k]]
            ELSE Append(before, [key |-> key, file |-> files[n]])

NoPdf == <<>>

\* The first entry of the lookup whose key contains the key of the DOCX.
matching_pdf(key, lookup) ==
    LET hits == {k \in 1..Len(lookup) : Contains(lookup[k].key, key)}
    IN IF hits = {} THEN NoPdf ELSE lookup[Min(hits)].file

\* The order of sorted() on the names: by character, then by length.
CharOrder == <<" ", "-", ".", "A", "J", "a", "j">>

Rank(c) == CHOOSE k \in 1..Len(CharOrder) : CharOrder[k] = c

RECURSIVE name_less(_, _)
name_less(s, t) ==
    IF s = <<>> THEN t # <<>>
    ELSE IF t = <<>> THEN FALSE
    ELSE IF Head(s) = Head(t) THEN name_less(Tail(s), Tail(t))
    ELSE Rank(Head(s)) < Rank(Head(t))

RECURSIVE sorted(_)
sorted(files) ==
    IF files = <<>> THEN <<>>
    ELSE LET least == CHOOSE k \in 1..Len(files) :
                          \A j \in 1..Len(files) :
                              j # k => name_less(files[k].name, files[j].name)
             rest == [j \in 1..(Len(files) - 1) |->
                         IF j < least THEN files[j] ELSE files[j + 1]]
         IN <<files[least]>> \o sorted(rest)

\* The files of the folder with "January 2025" in their name.
RECURSIVE january_files(_)
january_files(files) ==
    IF files = <<>> THEN <<>>
    ELSE (IF Contains(Head(files).name, January) THEN <<Head(files)>> ELSE <<>>)
         \o january_files(Tail(files))

docx_files == sorted(january_files(origin))

Outcome(result, name) == [result |-> result, name |-> name]

\* The merged file: the converted DOCX first, then the invoice.
merged_pdf(docx_file, pdf_file) ==
    [name |-> pdf_file, pages |-> <<docx_file.name, pdf_file>>]

\* The start of combine_word_and_pdf.
PdfStart ==
    /\ pc = "idle"
    /\ destExists' = TRUE
    /\ IF Len(docx_files) = 0
       THEN pc' = "done" /\ total_files' = total_files
       ELSE pc' = "running" /\ total_files' = Len(docx_files)
    /\ UNCHANGED <<inputVars, pdfs, scan, posted,
                   paragraph, call, variant, rules, origin,
                   dest, future, workerLog, driverLog, completed,
                   files_processed, file_i, report>>

\* One turn of the loop over the DOCX files.
PdfStep ==
    /\ pc = "running"
    /\ file_i < total_files
    /\ LET f == file_i + 1
           docx_file == docx_files[f]
           key == match_key(stem(docx_file.name))
           pdf_file == matching_pdf(key, pdf_lookup(pdfs))
       IN IF pdf_file = NoPdf
          THEN /\ workerLog' = [workerLog EXCEPT ![f] = Outcome("skipped", NoPdf)]
               /\ UNCHANGED <<dest, files_processed>>
          ELSE IF docx_file.fails # "none"
          THEN /\ workerLog' = [workerLog EXCEPT ![f] = Outcome("error", NoPdf)]
               /\ UNCHANGED <<dest, files_processed>>
          ELSE /\ dest' = save(dest, merged_pdf(docx_file, pdf_file))
               /\ files_processed' = files_processed + 1
               /\ workerLog' = [workerLog EXCEPT ![f] = Outcome("merged", pdf_file)]
    /\ file_i' = file_i + 1
    /\ UNCHANGED <<inputVars, pdfs, scan, posted,
                   paragraph, call, variant, rules, origin,
                   destExists, pc, total_files, future, driverLog, completed,
                   report>>

PdfFinish ==
    /\ pc = "running"
    /\ file_i = total_files
    /\ report' = [processed |-> files_processed, total |-> total_files]
    /\ pc' = "done"
    /\ UNCHANGED <<inputVars, pdfs, scan, posted,
                   paragraph, call, variant, rules, origin,
                   destExists, dest, total_files, future, workerLog, driverLog,
                   completed, files_processed, file_i>>

\* ------------------------------------------------- inputs of the combination
KeyChars == {"A", "a", " "}

KeyStrs == UNION {[1..k -> KeyChars] : k \in 0..MaxKeyLen}

\* Names of DOCX files: a part of up to MaxKeyLen characters, then " - " and
\* the month, or the month at once, or nothing.
DocxNames ==
    {k \o tail \o <<".">> :
        k \in KeyStrs, tail \in {Sep \o January, January, <<>>}} \ {<<".">>}

PdfFailKinds == {"none", "convert", "merge"}

PdfPool == << <<"a", ".">>, <<"A", ".">>, <<"a", "A", ".">>, <<"a", "a", ".">> >>

\* A PDF folder: up to MaxPdfs files of the pool, in any order.
PdfFolders ==
    {s \in UNION {[1..n -> 1..Len(PdfPool)] : n \in 0..MaxPdfs} :
        \A i, j \in 1..Len(s) : i # j => s[i] # s[j]}

Companion == [name |-> <<"a">> \o Sep \o January \o <<".">>, fails |-> "none"]

\* A Word folder with one DOCX of the bounds, before or after a second DOCX
\* or alone, and a PDF folder.
InitPdf ==
    /\ paragraph = <<>>
    /\ call = NoCall
    /\ variant = "pdf"
    /\ rules = <<>>
    /\ destExists \in BOOLEAN
    /\ \E nm \in DocxNames, fl \in PdfFailKinds :
          LET docx == [name |-> nm, fails |-> fl]
          IN origin \in {<<docx>>} \cup
                        (IF nm = Companion.name THEN {}
                         ELSE {<<docx, Companion>>, <<Companion, docx>>})
    /\ \E s \in PdfFolders : pdfs = [k \in 1..Len(s) |-> PdfPool[s[k]]]
    /\ pc = "idle"
    /\ InitCounters

NextPdf ==
    \/ PdfStart
    \/ PdfStep
    \/ PdfFinish

SpecPdf == InitPdf /\ [][NextPdf]_vars

\* ------------------------------------------------- properties of the replacer
\* String-level substitution, stated on its own: scan s from the left,
\* replace old where it starts, otherwise keep one character.
RECURSIVE StringSubst(_, _, _)
StringSubst(s, old, new) ==
    IF Len(s) < Len(old) THEN s
    ELSE IF SubSeq(s, 1, Len(old)) = old
         THEN new \o StringSubst(SubSeq(s, Len(old) + 1, Len(s)), old, new)
         ELSE <<s[1]>> \o StringSubst(Tail(s), old, new)

SixAttributes(st) ==
    <<st.bold, st.italic, st.underline, st.name, st.size, st.style>>

\* Some run of the paragraph the call was given contains old.
InRunHit ==
    /\ call.done
    /\ \E i \in 1..Len(call.before) : Contains(call.before[i].text, call.old)

\* The runs that stand for the i-th run of the paragraph the call was given:
\* from that run up to the run before the next run the paragraph had.
PosOf(i) == IndexOf(paragraph, i)
EndOf(i) == IF i < Len(call.before) THEN PosOf(i + 1) - 1 ELSE Len(paragraph)
Pieces(i) == SubSeq(paragraph, PosOf(i), EndOf(i))

\* C1: if old occurs wholly within some run, the concatenated run texts after
\* the call equal the string-level substitution of old by new in the
\* concatenated text before the call.
C1_TextIsStringSubstitution ==
    InRunHit =>
        ParagraphText(paragraph)
            = StringSubst(ParagraphText(call.before), call.old, call.new)

\* C2: every run that results from splitting a run has the bold, italic,
\* underline, font name, font size and named style of the run that was split.
C2_SplitKeepsStyle ==
    InRunHit =>
        \A i \in 1..Len(call.before) :
            Contains(call.before[i].text, call.old) =>
                /\ Len(Pieces(i)) >= 3
                /\ \A k \in 1..Len(Pieces(i)) :
                      SixAttributes(Pieces(i)[k].style)
                          = SixAttributes(call.before[i].style)

C2_Witness ==
    /\ InRunHit
    /\ \E i \in 1..Len(call.before) :
          /\ Contains(call.before[i].text, call.old)
          /\ call.before[i].style = Fancy
          /\ Len(Pieces(i)) >= 5
          /\ SixAttributes(Pieces(i)[3].style) = SixAttributes(Fancy)
          /\ \E j \in 1..Len(call.before) : call.before[j].style = NoStyle

\* The match straddles a run boundary: no run contains old, the concatenated
\* text does.
Straddles ==
    /\ call.done
    /\ ~InRunHit
    /\ Contains(ParagraphText(call.before), call.old)

\* C3: when old straddles a run boundary and no run contains it, the paragraph
\* has exactly one run after the call, holding the string-level substitution.
C3_StraddleFlattens ==
    Straddles =>
        /\ Len(paragraph) = 1
        /\ paragraph[1].text
               = StringSubst(ParagraphText(call.before), call.old, call.new)

C3_Witness ==
    /\ Straddles
    /\ Len(call.before) = 2
    /\ call.before[1].text = <<"a", "b">>
    /\ call.before[2].text = <<"b", "a">>
    /\ call.old = <<"b", "b">>
    /\ call.new = <<"a">>
    /\ Len(paragraph) = 1
    /\ paragraph[1].text = <<"a", "a", "a">>

\* C4: when old does not occur in the concatenated text, the call leaves the
\* run list as it was: the same runs, texts, styles and order.
C4_NoMatchNoChange ==
    (call.done /\ ~Contains(ParagraphText(call.before), call.old)) =>
        paragraph = call.before

C4_Witness ==
    /\ call.done
    /\ ~Contains(ParagraphText(call.before), call.old)
    /\ Len(call.before) = 2
    /\ call.before[1].style # call.before[2].style
    /\ paragraph = call.before

\* The texts of the runs that stand for the i-th run, with old put back in
\* place of every replacement segment.
RECURSIVE Unreplaced(_, _)
Unreplaced(pieces, k) ==
    IF k > Len(pieces) THEN <<>>
    ELSE (IF k % 2 = 0 THEN call.old ELSE pieces[k].text)
         \o Unreplaced(pieces, k + 1)

\* C5: in a run the matches are disjoint and taken from the left: the
\* segments alternate literal, new, ..., literal; putting old back for every
\* new gives the text of the run; and old starts nowhere in a literal before
\* the match that follows it.  "aaaa" with old "aa" gives two matches.
C5_NonOverlappingLeftToRight ==
    InRunHit =>
        \A i \in 1..Len(call.before) :
            Contains(call.before[i].text, call.old) =>
                LET ps == Pieces(i)
                    n == Len(ps)
                IN /\ n % 2 = 1
                   /\ \A k \in 1..n : k % 2 = 0 => ps[k].text = call.new
                   /\ Unreplaced(ps, 1) = call.before[i].text
                   /\ ~Contains(ps[n].text, call.old)
                   /\ \A k \in 1..(n - 1) :
                         k % 2 = 1 =>
                             ~Contains(ps[k].text
                                       \o SubSeq(call.old, 1, Len(call.old) - 1),
                                       call.old)

C5_Witness ==
    /\ call.done
    /\ Len(call.before) = 1
    /\ call.before[1].text = <<"a", "a", "a", "a">>
    /\ call.old = <<"a", "a">>
    /\ call.new = <<"b">>
    /\ Len(paragraph) = 5
    /\ ParagraphText(paragraph) = <<"b", "b">>

\* ------------------------------------------------- properties of the batch
\* The file the batch over one document has written.
SavedFile == CHOOSE d \in dest : TRUE

OneSaved == pc = "done" /\ Len(origin) = 1 /\ dest # {}

\* The rules up to the k-th applied to p one after another, the k-th last.
RECURSIVE RulesInOrder(_, _)
RulesInOrder(p, k) ==
    IF k = 0 THEN p ELSE replace_step(variant, RulesInOrder(p, k - 1), rules[k])

AThenB == <<[old |-> <<"a">>, new |-> <<"b">>], [old |-> <<"b">>, new |-> <<"c">>]>>

\* C6: a body paragraph is saved as the rules leave it when applied one after
\* another in list order, each to the result of the one before; under the
\* rules a->b, b->c every "a" and every "b" of the paragraph is saved as "c".
C6_RulesInListOrder ==
    OneSaved =>
        /\ SavedFile.body[1] = RulesInOrder(origin[1].body[1], Len(rules))
        /\ rules = AThenB =>
              ParagraphText(SavedFile.body[1])
                  = [i \in 1..Len(ParagraphText(origin[1].body[1])) |-> "c"]

C6_Witness ==
    /\ OneSaved
    /\ variant = "cli"
    /\ rules = AThenB
    /\ ParagraphText(origin[1].body[1]) = <<"a">>
    /\ ParagraphText(SavedFile.body[1]) = <<"c">>

\* The name with the string-level substitution of the rules up to the k-th
\* applied in list order.
RECURSIVE NameAfterRules(_, _)
NameAfterRules(name, k) ==
    IF k = 0 THEN name
    ELSE StringSubst(NameAfterRules(name, k - 1), rules[k].old, rules[k].new)

\* C7: a document is saved under its file name with every rule's substitution
\* applied in list order, each to the result of the one before.
C7_FilenameFollowsRules ==
    OneSaved => SavedFile.name = NameAfterRules(origin[1].name, Len(rules))

\* The name document f is saved under by the program that runs the batch.
ExpectedName(f) ==
    IF variant = "v6" THEN origin[f].name
    ELSE NameAfterRules(origin[f].name, Len(rules))

\* C8: whichever documents raise, at the end of the batch every discovered
\* document that does not raise has been processed and saved.
C8_FailuresDoNotAbort ==
    (pc = "done" /\ total_files > 0) =>
        \A f \in 1..total_files :
            origin[f].fails = "none" =>
                /\ workerLog[f] = "created"
                /\ \E d \in dest : d.name = ExpectedName(f)

C8_Witness ==
    /\ pc = "done"
    /\ total_files = 3
    /\ origin[1].fails = "load"
    /\ origin[2].fails = "save"
    /\ origin[3].fails = "none"
    /\ workerLog = <<"error", "error", "created">>
    /\ \E d \in dest : d.name = ExpectedName(3)

\* C9: at the end of the batch the reported number of processed documents is
\* the number of documents loaded, changed and saved without error.
C9_ReportCountsSuccesses ==
    (pc = "done" /\ total_files > 0) =>
        report.processed
            = Cardinality({f \in 1..total_files : origin[f].fails = "none"})

\* C10: the paragraphs in table cells and in footers are saved with the runs,
\* texts and styles they had in the source document.
C10_TablesAndFootersUntouched ==
    OneSaved =>
        /\ SavedFile.tables = origin[1].tables
        /\ SavedFile.footers = origin[1].footers

C10_Witness ==
    /\ OneSaved
    /\ Contains(ParagraphText(origin[1].tables[1]), rules[1].old)
    /\ Contains(ParagraphText(origin[1].footers[1]), rules[1].old)
    /\ SavedFile.body # origin[1].body
    /\ SavedFile.tables = origin[1].tables
    /\ SavedFile.footers = origin[1].footers

\* ------------------------------------------------- properties of the font change
\* The runs of the paragraphs ps.
AllRunsOf(ps) == UNION {{ps[k][r] : r \in 1..Len(ps[k])} : k \in 1..Len(ps)}

HasFont(run, name, size) == run.style.name = name /\ run.style.size = size

\* C11: after the font change every run of the body paragraphs and of the
\* table cell paragraphs of a saved document is Calibri 12pt, and every run
\* of its footer paragraphs is Calibri 8pt.
C11_FontEverywhere ==
    \A d \in dest :
        /\ \A run \in AllRunsOf(d.body) \cup AllRunsOf(d.tables) :
              HasFont(run, "Calibri", "12pt")
        /\ \A run \in AllRunsOf(d.footers) : HasFont(run, "Calibri", "8pt")

\* A run without what the font change sets.
Unfonted(run) == [run EXCEPT !.style.name = "-", !.style.size = "-"]

SameButFont(ps, qs) ==
    /\ Len(ps) = Len(qs)
    /\ \A k \in 1..Len(ps) :
          /\ Len(ps[k]) = Len(qs[k])
          /\ \A r \in 1..Len(ps[k]) : Unfonted(ps[k][r]) = Unfonted(qs[k][r])

\* The file that document f of the folder was saved as.
FontOutput(f) == CHOOSE d \in dest : d.name = origin[f].name

\* C12: the font change changes only the font name and the font size of
\* runs: text, bold, italic, underline, colour and style of every run, and
\* the number and order of runs and paragraphs, are saved as they were.
C12_OnlyFontChanged ==
    \A f \in 1..Len(origin) :
        workerLog[f] = "created" =>
            /\ \E d \in dest : d.name = origin[f].name
            /\ SameButFont(origin[f].body, FontOutput(f).body)
            /\ SameButFont(origin[f].tables, FontOutput(f).tables)
            /\ SameButFont(origin[f].footers, FontOutput(f).footers)

\* A document with a run in bold was given the font of change_font_in_docx.
C12_Witness ==
    /\ variant = "change_font"
    /\ \E f \in 1..Len(origin) :
          /\ workerLog[f] = "created"
          /\ \E run \in AllRunsOf(origin[f].body) :
                run.style.bold = "True" /\ run.text # <<>>
          /\ FontOutput(f).body # origin[f].body
          /\ FontOutput(f).footers # origin[f].footers

\* C13: the font change is idempotent: changing the font of a saved
\* document again gives the document that was saved.
C13_Idempotent ==
    \A d \in dest :
        font_content(variant, d) =
            [body |-> d.body, tables |-> d.tables, footers |-> d.footers]

\* A document whose runs did not have the font was changed and saved.
C13_Witness ==
    \E f \in 1..Len(origin) :
        /\ workerLog[f] = "created"
        /\ AllRunsOf(origin[f].body) # {}
        /\ FontOutput(f).body # origin[f].body
        /\ variant = "change_font"

\* ------------------------------------------------- properties of the input
NoEmptyOld(list) == \A k \in 1..Len(list) : list[k].old # <<>>

EmptyOldEntered == inputLog.event \in {"prompt", "add"} /\ inputLog.old = <<>>

\* C14 as stated: an entry whose old text is empty is answered with a
\* validation error, and no batch runs with a rule whose old text is empty.
C14_EmptyOldIsAnError ==
    /\ EmptyOldEntered => inputLog.answer = "required"
    /\ pc \in {"idle", "running", "done"} => NoEmptyOld(rules)

\* C14: a rule whose old text is empty never enters the list of pairs, so no
\* batch runs with one; Add of the GUIs answers it with an error message,
\* and the prompt of Word Document Processing.py takes it as the end of the
\* input, without an error, and starts the batch with the pairs before it.
C14_EmptyOldNeverInList ==
    /\ NoEmptyOld(pairs)
    /\ NoEmptyOld(rules)
    /\ EmptyOldEntered /\ inputLog.event = "add" => inputLog.answer = "required"
    /\ EmptyOldEntered /\ inputLog.event = "prompt" =>
          /\ inputLog.answer = IF pairs = <<>> THEN "exit" ELSE "finished"
          /\ rules = pairs

\* The prompt was left empty after a pair and the batch ran to its end.
C14_Witness ==
    /\ variant = "cli"
    /\ inputLog = Answer("prompt", <<>>, "finished")
    /\ pc = "done"
    /\ dest # {}

\* C17: the rule list of a batch is fixed when the batch is submitted: no
\* event of the window changes the rules of a thread that still has
\* documents to process.
C17_RulesFixedAtSubmit ==
    [][(pc = "idle" \/ (pc = "running" /\ file_i < total_files)) => rules' = rules]_vars

\* ------------------------------------------------- the replacer, empty new
\* The runs the call created: the runs the paragraph was given have the
\* ids 1..Len(call.before).
Created(run) == run.id > Len(call.before)

EmptyNewHit == InRunHit /\ call.new = <<>>

\* C15 as stated: with an empty new text no created run has empty text.
C15_EmptyNewMakesNoRun ==
    EmptyNewHit =>
        \A k \in 1..Len(paragraph) :
            Created(paragraph[k]) => paragraph[k].text # <<>>

\* C15: with an empty new text, every occurrence of old replaced inside a
\* run leaves a created run with empty text where it stood, formatted like
\* the run that was split; the segment after it, empty or not, is a created
\* run as well.
C15_EmptyNewMakesEmptyRuns ==
    EmptyNewHit =>
        \A i \in 1..Len(call.before) :
            Contains(call.before[i].text, call.old) =>
                LET ps == Pieces(i)
                IN /\ Len(ps) >= 3
                   /\ Len(ps) % 2 = 1
                   /\ \A k \in 2..Len(ps) : Created(ps[k])
                   /\ \A k \in 2..Len(ps) :
                         k % 2 = 0 =>
                             /\ ps[k].text = <<>>
                             /\ SixAttributes(ps[k].style)
                                    = SixAttributes(call.before[i].style)

\* Old was removed twice from a run: two created runs with empty text stand
\* between the literal segments.
C15_Witness ==
    /\ EmptyNewHit
    /\ \E i \in 1..Len(call.before) :
          /\ Len(Pieces(i)) >= 5
          /\ Pieces(i)[1].text # <<>>
          /\ Pieces(i)[2].text = <<>> /\ Created(Pieces(i)[2])
          /\ Pieces(i)[3].text # <<>>
          /\ Pieces(i)[4].text = <<>> /\ Created(Pieces(i)[4])

\* ------------------------------------------------- properties of the pool
\* The destination folder after the first k documents of the folder were
\* processed one at a time, in the order of the folder.
RECURSIVE OneAtATime(_)
OneAtATime(k) ==
    IF k = 0 THEN {}
    ELSE LET r == process_word_file(variant, origin[k], rules)
         IN IF r.ok THEN save(OneAtATime(k - 1), r.file) ELSE OneAtATime(k - 1)

\* C16: whatever the order in which the workers of the pool run and finish,
\* the files of the destination folder and their content at the end of the
\* batch are those of the documents processed one at a time.
C16_PoolSameAsOneAtATime ==
    (variant = "cli" /\ pc = "done" /\ total_files > 0) =>
        dest = OneAtATime(total_files)

\* ------------------------------------------------- the destination folder
\* C18: a batch over a folder with documents also writes when the
\* destination folder does not exist at the start: at the end the folder
\* exists and holds the output of every document that raised nothing.
C18_DestinationCreated ==
    (pc = "done" /\ Len(origin) > 0) =>
        /\ destExists
        /\ \A f \in 1..Len(origin) :
              origin[f].fails = "none" => \E d \in dest : d.name = ExpectedName(f)

\* No rule of the batch matches the name or a body paragraph of document f.
NoRuleMatches(f) ==
    \A k \in 1..Len(rules) :
        /\ ~Contains(origin[f].name, rules[k].old)
        /\ \A j \in 1..Len(origin[f].body) :
              ~Contains(ParagraphText(origin[f].body[j]), rules[k].old)

Unchanged(f, d) ==
    /\ d.name = origin[f].name
    /\ d.body = origin[f].body
    /\ d.tables = origin[f].tables
    /\ d.footers = origin[f].footers

\* C19: a discovered document that loads and saves without error has an
\* output file in the destination also when no rule matches its content or
\* its name: it is saved under its own name, as it was.
C19_UnmatchedStillSaved ==
    (pc = "done" /\ total_files > 0) =>
        \A f \in 1..total_files :
            (origin[f].fails = "none" /\ NoRuleMatches(f)) =>
                /\ workerLog[f] = "created"
                /\ \E d \in dest : Unchanged(f, d)

\* A document with text that no rule of the batch matches was saved.
C19_Witness ==
    /\ pc = "done"
    /\ total_files = 1
    /\ NoRuleMatches(1)
    /\ ParagraphText(origin[1].body[1]) # <<>>
    /\ \E d \in dest : Unchanged(1, d)

\* ------------------------------------------------- properties of the combination
IsPrefix(p, s) == Len(p) <= Len(s) /\ SubSeq(s, 1, Len(p)) = p

\* The part of s before its first " - ": all of s when it has none.
PartBefore(s) ==
    IF ~Contains(s, Sep) THEN s
    ELSE CHOOSE p \in {SubSeq(s, 1, n) : n \in 0..Len(s)} :
             /\ IsPrefix(p \o Sep, s)
             /\ \A n \in 0..(Len(p) - 1) : ~IsPrefix(SubSeq(s, 1, n) \o Sep, s)

\* The files of the PDF folder whose lower-cased name contains key.
PdfsWith(key) ==
    {pdfs[k] : k \in {j \in 1..Len(pdfs) : Contains(lower(pdfs[j]), key)}}

\* What the combination does with a DOCX whose key is key: with a PDF for
\* the key, the merge of the DOCX and of that PDF under the name of the PDF;
\* with none, nothing.
CombinedBy(f, key) ==
    IF PdfsWith(key) = {} THEN workerLog[f] = Outcome("skipped", NoPdf)
    ELSE /\ workerLog[f].result = "merged"
         /\ workerLog[f].name \in PdfsWith(key)
         /\ \E d \in dest :
               /\ d.name = workerLog[f].name
               /\ d.pages[2] = d.name
               /\ \E g \in 1..total_files : d.pages[1] = docx_files[g].name

KeyOfStem(s) ==
    IF strip(PartBefore(s)) = <<>> THEN lower(s) ELSE lower(strip(PartBefore(s)))

\* The first file of the PDF folder whose lower-cased name contains key.
FirstPdfWith(key) ==
    pdfs[Min({j \in 1..Len(pdfs) : Contains(lower(pdfs[j]), key)})]

RECURSIVE CountOcc(_, _)
CountOcc(s, old) ==
    IF Len(s) < Len(old) THEN 0
    ELSE IF SubSeq(s, 1, Len(old)) = old
         THEN 1 + CountOcc(SubSeq(s, Len(old) + 1, Len(s)), old)
         ELSE CountOcc(Tail(s), old)

PiecesText(i) == Concat([k \in 1..Len(Pieces(i)) |-> Pieces(i)[k].text])

NewHoldsOld == InRunHit /\ Contains(call.new, call.old)

\* C21: one call is a single pass over the runs the paragraph had: when new
\* contains old, every occurrence of old in a run is replaced once, the text
\* put in is new itself and is not replaced again.
C21_SinglePass ==
    NewHoldsOld =>
        \A i \in 1..Len(call.before) :
            Contains(call.before[i].text, call.old) =>
                LET ps == Pieces(i)
                    n == CountOcc(call.before[i].text, call.old)
                IN /\ Len(ps) = 2 * n + 1
                   /\ \A k \in 1..Len(ps) : k % 2 = 0 => ps[k].text = call.new
                   /\ PiecesText(i)
                          = StringSubst(call.before[i].text, call.old, call.new)
                   /\ Len(PiecesText(i))
                          = Len(call.before[i].text)
                            + n * (Len(call.new) - Len(call.old))

\* old "a" was replaced by "aa" twice in one run, and the runs put in still
\* hold old.
C21_Witness ==
    /\ NewHoldsOld
    /\ call.old = <<"a">>
    /\ call.new = <<"a", "a">>
    /\ \E i \in 1..Len(call.before) :
          /\ CountOcc(call.before[i].text, call.old) = 2
          /\ Len(Pieces(i)) = 5
          /\ Pieces(i)[2].text = <<"a", "a">>
          /\ Pieces(i)[4].text = <<"a", "a">>

\* ------------------------------------------------- the scan loop ends
\* C22: for a non-empty old the scan loop of a run ends: with every match
\* the start position grows, and in the end no further match is found.
C22_ScanTerminates ==
    /\ [][~scan.done => (scan'.done \/ scan'.start > scan.start)]_vars
    /\ <>scan.done

\* The loop ended after two matches, with the parts of ScanParts.
C22_Witness ==
    /\ scan.done
    /\ scan.old # <<>>
    /\ scan.start > 0
    /\ Len(scan.parts) = 5
    /\ scan.parts = ScanParts(scan.text, scan.old, scan.new, 0)

\* ------------------------------------------------- the replacer, other runs
Original(i) == \E k \in 1..Len(paragraph) : paragraph[k].id = i

\* The original run that a created run at position k stands behind: the
\* last original run before k (0 when there is none).
OwnerOf(k) ==
    LET before == {j \in 1..(k - 1) : ~Created(paragraph[j])}
    IN IF before = {} THEN 0
       ELSE paragraph[CHOOSE j \in before : \A h \in before : h <= j].id

\* C23: when some run contains old, only the runs that contain old change:
\* a run without old keeps its text and style, no original run is removed,
\* the original runs keep their order, and the runs created for a run stand
\* right behind it, in the order of their creation, before the next
\* original run.
C23_OnlyHitRunsChange ==
    InRunHit =>
        /\ \A i \in 1..Len(call.before) : Original(i)
        /\ \A i, j \in 1..Len(call.before) : i < j => PosOf(i) < PosOf(j)
        /\ \A i \in 1..Len(call.before) :
              ~Contains(call.before[i].text, call.old) =>
                  /\ paragraph[PosOf(i)] = call.before[i]
                  /\ EndOf(i) = PosOf(i)
        /\ \A k \in 1..Len(paragraph) :
              Created(paragraph[k]) =>
                  /\ OwnerOf(k) # 0
                  /\ Contains(call.before[OwnerOf(k)].text, call.old)
                  /\ \A j \in (PosOf(OwnerOf(k)) + 1)..(k - 1) :
                        /\ Created(paragraph[j])
                        /\ paragraph[j].id < paragraph[k].id

\* The first of two runs was split; the second, without old, is still the
\* last run, as it was.
C23_Witness ==
    /\ InRunHit
    /\ Len(call.before) = 2
    /\ Contains(call.before[1].text, call.old)
    /\ ~Contains(call.before[2].text, call.old)
    /\ call.before[2].text # <<>>
    /\ call.before[2].style = Fancy
    /\ Len(paragraph) >= 4
    /\ paragraph[Len(paragraph)] = call.before[2]

\* ------------------------------------------------- the names of the outputs
Saved(f) == f \in 1..Len(origin) /\ workerLog[f] = "created"

\* C24: within one batch no two documents are written to the same path of
\* the destination: the outputs of the documents saved are as many files.
C24_DistinctDestinationPaths ==
    /\ \A f, g \in 1..Len(origin) :
          (Saved(f) /\ Saved(g) /\ f # g) =>
              new_filename(variant, origin[f].name, rules)
                  # new_filename(variant, origin[g].name, rules)
    /\ Cardinality(dest) = Cardinality({f \in 1..Len(origin) : Saved(f)})

\* ------------------------------------------------- the progress bar
Last(s) == s[Len(s)]

\* C26: in a batch of a GUI over documents the values posted to the
\* progress bar never decrease, and at the completion message the last
\* value posted is 100, whichever documents failed.
C26_ProgressReaches100 ==
    variant \in GuiVariants =>
        /\ \A i, j \in 1..Len(posted) : i < j => posted[i] <= posted[j]
        /\ (pc = "done" /\ total_files > 0) =>
              posted # <<>> /\ Last(posted) = 100

\* ------------------------------------------------- the list of pairs
\* The GUIs with Add, Remove, Clear and a test of the list in Run:
\* DocFlow.py.py and Document_Processing_GUI_v6.py.
ListGuis == {"v6", "docflow"}

WellFormed(list) ==
    /\ \A k \in 1..Len(list) :
          /\ list[k].old # <<>> /\ list[k].new # <<>>
          /\ strip(list[k].old) = list[k].old
          /\ strip(list[k].new) = list[k].new
    /\ \A j, k \in 1..Len(list) : j # k => list[j] # list[k]

\* s is t without some of its elements, the others in their order.
RECURSIVE IsSubseq(_, _)
IsSubseq(s, t) ==
    IF s = <<>> THEN TRUE
    ELSE IF t = <<>> THEN FALSE
    ELSE IF Head(s) = Head(t) THEN IsSubseq(Tail(s), Tail(t))
    ELSE IsSubseq(s, Tail(t))

IsAppend(s, t) == Len(s) = Len(t) + 1 /\ SubSeq(s, 1, Len(t)) = t

ListStep ==
    variant \in ListGuis =>
        /\ WellFormed(pairs')
        /\ (IsAppend(pairs', pairs) \/ IsSubseq(pairs', pairs))
        /\ (pc = "input" /\ pc' # "input") => (pairs # <<>> /\ rules' = pairs)
        /\ (inputLog'.event = "run" /\ pairs = <<>>) => pc' = "input"

\* C25: after every Add, Remove and Clear the list of pairs holds only
\* pairs with both texts non-empty and stripped, holds no pair twice, and
\* has its pairs in the order they were added: an event adds one pair at
\* the end or takes pairs out; a Run with an empty list starts no batch.
C25_ListWellFormed == [][ListStep]_vars

\* With two pairs in the list, the Add of a pair already there was refused.
C25_Witness ==
    /\ variant \in ListGuis
    /\ Len(pairs) = 2
    /\ inputLog.event = "add"
    /\ inputLog.answer = "exists"
====
